---- MODULE Spec2Model ----
(***************************************************************************)
(* Model of package tempdll (KnicKnic/temp-dll): a LazyDLL buffers an      *)
(* embedded image, writes it to <temp>/<base32(sha256(image))>-<name> with *)
(* safeWriteFile (a read/compare/rewrite retry loop shared by every        *)
(* process on the machine), and loads it with syscall.LoadDLL behind a     *)
(* double-checked lock.                                                    *)
(*                                                                         *)
(* Processes are the elements of Procs; each owns one LazyDLL and runs     *)
(* the threads of Threads.  The file system is shared by all processes.    *)
(***************************************************************************)
EXTENDS Integers, Sequences, FiniteSets, TLC

\* ------------------------------------------------------------------ bounds
NumProcs == 2
NumThreads == 2
NumRoutines == 2
MaxCalls == 2
MaxRetry == 2
MaxLen == 3

\* ------------------------------------------------------- program constants
\* safeWriteFile(d.fileName, contents.Bytes(), 60, time.Second)
LoadRetryCount == 60

Procs == 1..NumProcs
Threads == 1..NumThreads
\* The exported routines for which the program made a LazyProc.
Routines == 1..NumRoutines
\* The byte values that occur in the model's files.
Bytes == {1, 2}

\* The embedded library image and the logical name given to NewLazyDLL.
Image == <<1, 2>>
DllName == "x.dll"

\* Every byte sequence a file can hold in the model.
Contents == UNION {[1..n -> Bytes] : n \in 0..MaxLen}

\* ---------------------------------------------------------- pure functions
\* A comparison of only as many bytes as were read from the disk.
BytesEqualUpToRead(a, b) == Len(a) <= Len(b) /\ a = SubSeq(b, 1, Len(a))

\* A comparison of the buffers' identities, which never agree.
BytesEqualNever(a, b) == FALSE

\* bytes.Equal(fileOnDisk.Bytes(), contents)
BytesEqual(a, b) == a = b

\* sha256.Sum256: a digest of the whole byte sequence.  Collisions are taken
\* as impossible, so the digest is an injective fold over the bytes.
RECURSIVE Sum256(_)
Sum256(c) ==
    IF c = <<>> THEN 1
    ELSE Sum256(SubSeq(c, 1, Len(c) - 1)) * (Cardinality(Bytes) + 1) + c[Len(c)]

\* base32.StdEncoding.WithPadding(NoPadding).EncodeToString: the digest
\* rendered as its sequence of 5-bit digits, most significant first.
RECURSIVE EncodeToString(_)
EncodeToString(n) ==
    IF n < 32 THEN <<n>>
    ELSE Append(EncodeToString(n \div 32), n % 32)

\* filepath.Join(os.TempDir(), shaFileName + "-" + d.Name)
TargetPathOf(c, name) == <<"tmp", EncodeToString(Sum256(c)), "-", name>>

\* What io.Copy can drain from the image reader: a suffix of the image.
Suffixes == {SubSeq(Image, k, Len(Image)) : k \in 1..Len(Image) + 1}

\* main.go: uuid.New().String(), a value drawn anew at every call.
Uuids == {"uuid-a", "uuid-b"}

\* main.go, NewLazyDLL: filepath.Join(os.TempDir(), (prefix + name))
TempFileName(prefix, name) == <<"tmp", prefix, name>>

Paths ==
    {TargetPathOf(c, DllName) : c \in Suffixes}
        \cup {TempFileName(u, DllName) : u \in Uuids}
TargetPath == TargetPathOf(Image, DllName)

Absent == [exists |-> FALSE, data |-> <<>>]

VARIABLES
    fs,        \* the temp directory: path -> [exists, data]
    extWrote,  \* whether the outside actor has rewritten the file
    fsFaulty,  \* whether opens may fail for reasons other than absence
    extActive, \* whether an actor outside the protocol rewrites the file
    swf,       \* per process: the running safeWriteFile activation
    lib,       \* per process: its LazyDLL
    th,        \* per process and thread: the running call
    lp         \* per process and routine: the LazyProc of the LazyDLL

vars == <<fs, extWrote, fsFaulty, extActive, swf, lib, th, lp>>

\* ------------------------------------------------------------ safeWriteFile
SwfIdle ==
    [pc |-> "idle", fileName |-> TargetPath, contents |-> <<>>,
     retryCount |-> 0, i |-> 0,
     file |-> FALSE, wFile |-> FALSE, err |-> "nil", wErr |-> "nil",
     result |-> "none", ret |-> FALSE, retRead |-> <<>>,
     nReadOpen |-> 0, allMismatch |-> TRUE, nWriteOpen |-> 0,
     nSleep |-> 0, nOpen |-> 0, startOK |-> FALSE, startAbsent |-> FALSE]

\* The entry of safeWriteFile: the holders are empty and retryCount += 1.
SwfEntry(path, contents, n) ==
    [SwfIdle EXCEPT !.pc = "top", !.fileName = path, !.contents = contents,
                    !.retryCount = n + 1,
                    !.startOK = fs[path].exists /\ fs[path].data = contents,
                    !.startAbsent = ~fs[path].exists]

\* safeClose on the read holder only: the write descriptor stays open.
SafeCloseReadOnly(s) ==
    [s EXCEPT !.file = FALSE, !.nOpen = s.nOpen - (IF s.file THEN 1 ELSE 0)]

\* fileHolder.safeClose on both holders.
SafeCloseBoth(s) ==
    [s EXCEPT !.file = FALSE, !.wFile = FALSE,
              !.nOpen = s.nOpen - (IF s.file THEN 1 ELSE 0)
                                - (IF s.wFile THEN 1 ELSE 0)]

\* A return statement: the deferred safeClose calls run.
SwfReturn(s, result) ==
    [SafeCloseBoth(s) EXCEPT !.pc = "done", !.result = result]

\* The loop condition written i < retryCount.
SwfNextIterStrict(s) ==
    IF s.i + 1 < s.retryCount
    THEN [s EXCEPT !.i = s.i + 1, !.pc = "top"]
    ELSE [SafeCloseBoth([s EXCEPT !.i = s.i + 1]) EXCEPT
              !.pc = "done", !.result = "Exhausted"]

\* The loop with no exit: the condition always holds and i stops at
\* retryCount.
SwfNextIterNoExit(s) ==
    [s EXCEPT !.i = IF s.i < s.retryCount THEN s.i + 1 ELSE s.i, !.pc = "top"]

\* The end of the loop body: i += 1 and the loop condition i <= retryCount;
\* when it fails the function returns the error after the loop.
SwfNextIter(s) ==
    IF s.i + 1 <= s.retryCount
    THEN [s EXCEPT !.i = s.i + 1, !.pc = "top"]
    ELSE SwfReturn([s EXCEPT !.i = s.i + 1], "Exhausted")

\* After the write: time.Sleep(retryDelay) when i+1 < retryCount.
SwfAfterWrite(s) ==
    IF s.i + 1 < s.retryCount THEN [s EXCEPT !.pc = "sleep"]
    ELSE SwfNextIter(s)

\* Top of the loop body: close both holders, then os.OpenFile(O_RDONLY).
\* The open fails when the file is absent, or for any reason when the file
\* system is faulty.
SwfReadOpen(p) ==
    /\ swf[p].pc = "top"
    /\ \E ok \in BOOLEAN :
         /\ ok => fs[swf[p].fileName].exists
         /\ ~ok => (fsFaulty \/ ~fs[swf[p].fileName].exists)
         /\ LET s == SafeCloseBoth(swf[p]) IN
            swf' = [swf EXCEPT ![p] =
                IF ok
                THEN [s EXCEPT !.file = TRUE, !.err = "nil", !.pc = "read",
                               !.nOpen = s.nOpen + 1,
                               !.nReadOpen = s.nReadOpen + 1]
                ELSE [s EXCEPT !.err = "ReadOpenFailed", !.pc = "wopen",
                               !.nReadOpen = s.nReadOpen + 1,
                               !.allMismatch = FALSE]]
    /\ UNCHANGED <<fs, extWrote, fsFaulty, extActive, lib, th, lp>>

\* io.Copy(fileOnDisk, file.handle) and bytes.Equal: success hands the read
\* descriptor to the caller; a mismatch on the last iteration is an error.
SwfCompare(p) ==
    /\ swf[p].pc = "read"
    /\ LET s == swf[p]
           onDisk == fs[s.fileName].data
       IN swf' = [swf EXCEPT ![p] =
            IF BytesEqual(onDisk, s.contents)
            THEN [SwfReturn([s EXCEPT !.file = FALSE], "ok") EXCEPT
                      !.ret = TRUE, !.retRead = onDisk, !.allMismatch = FALSE]
            ELSE IF s.i = s.retryCount
            THEN SwfReturn(s, "ContentMismatch")
            ELSE [s EXCEPT !.pc = "wopen"]]
    /\ UNCHANGED <<fs, extWrote, fsFaulty, extActive, lib, th, lp>>

\* The open without O_TRUNC: an existing file keeps its content.
CreateNoTrunc(f) == [exists |-> TRUE, data |-> f.data]

\* What os.O_CREATE|os.O_TRUNC leaves of the file f: an empty file.
CreateTrunc(f) == [exists |-> TRUE, data |-> <<>>]

\* os.OpenFile(O_WRONLY|O_CREATE|O_TRUNC): creates or truncates the file.
\* Go opens files sharing read and write access, so an open read descriptor
\* of another process does not make this open fail.
SwfWriteOpen(p) ==
    /\ swf[p].pc = "wopen"
    /\ \E ok \in BOOLEAN :
         /\ ~ok => fsFaulty
         /\ LET s == [swf[p] EXCEPT !.nWriteOpen = swf[p].nWriteOpen + 1] IN
            IF ok
            THEN /\ fs' = [fs EXCEPT ![s.fileName] = CreateTrunc(@)]
                 /\ swf' = [swf EXCEPT ![p] =
                        [s EXCEPT !.wFile = TRUE, !.wErr = "nil",
                                  !.pc = "write", !.nOpen = s.nOpen + 1]]
            ELSE /\ fs' = fs
                 /\ swf' = [swf EXCEPT ![p] =
                        LET w == [s EXCEPT !.wErr = "WriteOpenFailed"] IN
                        IF s.i = s.retryCount THEN SwfReturn(w, "WriteError")
                        ELSE SwfAfterWrite(w)]
    /\ UNCHANGED <<extWrote, fsFaulty, extActive, lib, th, lp>>

\* A short write: all of c but its last byte.
OverwriteShort(old, c) ==
    IF c = <<>> THEN old ELSE SubSeq(c, 1, Len(c) - 1)

\* What a write of c at offset 0 leaves in a file holding old.
Overwrite(old, c) ==
    IF Len(old) <= Len(c) THEN c ELSE c \o SubSeq(old, Len(c) + 1, Len(old))

\* io.Copy(wFile.handle, toWrite): one write of the whole contents.
SwfWrite(p) ==
    /\ swf[p].pc = "write"
    /\ LET s == swf[p] IN
       /\ fs' = [fs EXCEPT ![s.fileName].data = Overwrite(@, s.contents)]
       /\ swf' = [swf EXCEPT ![p] = SwfAfterWrite(s)]
    /\ UNCHANGED <<extWrote, fsFaulty, extActive, lib, th, lp>>

\* time.Sleep(retryDelay)
SwfSleep(p) ==
    /\ swf[p].pc = "sleep"
    /\ swf' = [swf EXCEPT ![p] =
                  SwfNextIter([swf[p] EXCEPT !.nSleep = swf[p].nSleep + 1])]
    /\ UNCHANGED <<fs, extWrote, fsFaulty, extActive, lib, th, lp>>

SwfStep(p) ==
    \/ SwfReadOpen(p)
    \/ SwfCompare(p)
    \/ SwfWriteOpen(p)
    \/ SwfWrite(p)
    \/ SwfSleep(p)

\* ------------------------------------------------------------------ LazyDLL
\* NewLazyDLL(dll, name): &LazyDLL{Name: name, dllData: dll}.  dll = 0 is the
\* nil pointer; mu = 0 is the unlocked mutex, else the thread holding it.
\* nRead, nSwf, nLoad count the image reads, safeWriteFile calls and
\* syscall.LoadDLL calls made for this LazyDLL; attempts numbers the cold
\* paths entered; failed records that some Load returned an error; badLoad
\* that LoadDLL ran on TargetPath while the file there was not the image.
NewLazyDLL ==
    [dll |-> 0, Name |-> DllName, wroteDll |-> FALSE, dllHandle |-> FALSE,
     fileName |-> <<>>, dllData |-> Image, mu |-> 0,
     nRead |-> 0, nSwf |-> 0, nLoad |-> 0, attempts |-> 0,
     failed |-> FALSE, badLoad |-> FALSE]

NoErr == <<"nil", 0>>

\* A thread between calls.  res/err/seen are what its last call returned;
\* own is the number of the cold path it ran in the current call (0: none),
\* sawFail the error of an attempt that failed while it waited for the lock.
ThreadIdle ==
    [pc |-> "idle", kind |-> "Load", calls |-> 0, contents |-> <<>>,
     res |-> "none", err |-> NoErr, seen |-> 0, own |-> 0, sawFail |-> NoErr,
     routine |-> 0, addr |-> 0]

\* mustLoad without its check: Handle() goes on after a failed Load.
ReturnedUnchecked(c, e, dllNow) ==
    IF c.routine # 0
    THEN [c EXCEPT !.pc = "loadret", !.contents = <<>>, !.err = e]
    ELSE [c EXCEPT !.pc = "idle", !.calls = c.calls + 1, !.contents = <<>>,
              !.err = e,
              !.res = IF e = NoErr \/ c.kind = "Handle" THEN "ok" ELSE "err",
              !.seen = IF c.kind = "Handle" THEN dllNow ELSE 0]

\* Load returns e to its caller.  Load() hands the error on; Handle() is
\* mustLoad followed by a read of d.dll.Handle: it panics on an error.  A
\* Load called by Find (routine # 0) returns into Find.
Returned(c, e, dllNow) ==
    IF c.routine # 0
    THEN [c EXCEPT !.pc = "loadret", !.contents = <<>>, !.err = e]
    ELSE [c EXCEPT !.pc = "idle", !.calls = c.calls + 1, !.contents = <<>>,
              !.err = e,
              !.res = IF e = NoErr THEN "ok"
                      ELSE IF c.kind = "Handle" THEN "panic" ELSE "err",
              !.seen = IF e = NoErr /\ c.kind = "Handle" THEN dllNow ELSE 0]

\* A failing return under the lock (defer d.mu.Unlock()), d being the
\* LazyDLL as the call leaves it: the threads that wait for the lock
\* meanwhile are those in front of which the failure happened.
FailUnder(p, t, e, d) ==
    /\ lib' = [lib EXCEPT ![p] = [d EXCEPT !.mu = 0, !.failed = TRUE]]
    /\ th' = [th EXCEPT ![p] = [u \in Threads |->
                IF u = t THEN Returned(th[p][t], e, 0)
                ELSE IF th[p][u].pc = "lock"
                THEN [th[p][u] EXCEPT !.sawFail = e]
                ELSE th[p][u]]]

\* The Load()/Handle() calls started so far on the LazyDLL of p by its
\* threads 1..n.
RECURSIVE CallsMade(_, _)
CallsMade(p, n) ==
    IF n = 0 THEN 0
    ELSE CallsMade(p, n - 1) + th[p][n].calls
                             + (IF th[p][n].pc = "idle" THEN 0 ELSE 1)

\* A caller enters Load (MaxCalls bounds the calls made on one LazyDLL).
\* The unsynchronised check: atomic.LoadPointer(&d.dll) == nil.
LoadEnter(p, t) ==
    /\ th[p][t].pc = "idle"
    /\ CallsMade(p, NumThreads) < MaxCalls
    /\ \E kind \in {"Load", "Handle"} :
         LET c == [th[p][t] EXCEPT !.kind = kind, !.res = "none",
                                   !.err = NoErr, !.seen = 0, !.own = 0,
                                   !.sawFail = NoErr, !.routine = 0,
                                   !.addr = 0] IN
         th' = [th EXCEPT ![p][t] =
                  IF lib[p].dll # 0 THEN Returned(c, NoErr, lib[p].dll)
                  ELSE [c EXCEPT !.pc = "lock"]]
    /\ UNCHANGED <<fs, extWrote, fsFaulty, extActive, swf, lib, lp>>

\* The lock taken with no second check.
DllIsNilNoRecheck(p) == TRUE

\* The second check, d.dll == nil, made under the lock.
DllIsNil(p) == lib[p].dll = 0

\* A lock that never blocks.
MuFreeAlways(p) == TRUE

\* d.mu.Lock() returns only while no thread holds the mutex.
MuFree(p) == lib[p].mu = 0

\* d.mu.Lock() and the second check under the lock.
LoadLock(p, t) ==
    /\ th[p][t].pc = "lock"
    /\ MuFree(p)
    /\ IF ~DllIsNil(p)
       THEN /\ th' = [th EXCEPT ![p][t] =
                        Returned(th[p][t], NoErr, lib[p].dll)]
            /\ lib' = lib
       ELSE /\ th' = [th EXCEPT ![p][t] =
                        [th[p][t] EXCEPT !.own = lib[p].attempts + 1,
                            !.pc = IF lib[p].wroteDll THEN "load"
                                   ELSE "buffer"]]
            /\ lib' = [lib EXCEPT ![p].mu = t,
                                  ![p].attempts = lib[p].attempts + 1]
    /\ UNCHANGED <<fs, extWrote, fsFaulty, extActive, swf, lp>>

\* io.Copy(contents, d.dllData), the digest, d.fileName and the call of
\* safeWriteFile.  A failing copy has consumed k bytes of the reader.
LoadBuffer(p, t) ==
    /\ th[p][t].pc = "buffer"
    /\ \E ok \in BOOLEAN, k \in 0..Len(lib[p].dllData) :
         LET d == [lib[p] EXCEPT !.nRead = lib[p].nRead + 1] IN
         IF ok
         THEN /\ k = Len(d.dllData)
              /\ LET contents == d.dllData
                     path == TargetPathOf(contents, d.Name) IN
                 /\ lib' = [lib EXCEPT ![p] =
                              [d EXCEPT !.dllData = <<>>, !.fileName = path,
                                        !.nSwf = d.nSwf + 1]]
                 /\ th' = [th EXCEPT ![p][t].pc = "write",
                                     ![p][t].contents = contents]
                 /\ swf' = [swf EXCEPT ![p] =
                                SwfEntry(path, contents, LoadRetryCount)]
         ELSE /\ FailUnder(p, t, <<"ImageReadFailed", th[p][t].own>>,
                      [d EXCEPT !.dllData =
                                   SubSeq(d.dllData, k + 1, Len(d.dllData))])
              /\ swf' = swf
    /\ UNCHANGED <<fs, extWrote, fsFaulty, extActive, lp>>

\* The handle published as soon as the file is written.
KeepWrittenAndPublish(d) ==
    [d EXCEPT !.dllHandle = TRUE, !.wroteDll = TRUE, !.dll = d.nLoad + 1]

\* The descriptor kept and the flag forgotten.
KeepWrittenNoFlag(d) == [d EXCEPT !.dllHandle = TRUE]

\* What Load does with a successful safeWriteFile: it keeps the descriptor
\* and sets d.wroteDll.
KeepWritten(d) == [d EXCEPT !.dllHandle = TRUE, !.wroteDll = TRUE]

\* safeWriteFile has returned: d.dllHandle, e = ...; on an error Load
\* returns it.
LoadAfterWrite(p, t) ==
    /\ th[p][t].pc = "write"
    /\ swf[p].pc = "done"
    /\ IF swf[p].result = "ok"
       THEN /\ lib' = [lib EXCEPT ![p] = KeepWritten(lib[p])]
            /\ th' = [th EXCEPT ![p][t].pc = "load"]
       ELSE FailUnder(p, t, <<swf[p].result, th[p][t].own>>, lib[p])
    /\ UNCHANGED <<fs, extWrote, fsFaulty, extActive, swf, lp>>

\* syscall.LoadDLL(d.fileName) and atomic.StorePointer(&d.dll, dll).  The
\* load can fail for any reason and succeeds only on a file that holds the
\* image; each successful call yields a new *syscall.DLL.
LoadDLL(p, t) ==
    /\ th[p][t].pc = "load"
    /\ \E ok \in BOOLEAN :
         LET f == fs[lib[p].fileName]
             d == [lib[p] EXCEPT !.nLoad = lib[p].nLoad + 1,
                      !.badLoad = lib[p].badLoad \/
                          (lib[p].fileName = TargetPath /\
                           ~(f.exists /\ f.data = Image))] IN
         IF ok
         THEN /\ f.exists /\ f.data = Image
              /\ lib' = [lib EXCEPT ![p] =
                           [d EXCEPT !.dll = d.nLoad, !.mu = 0]]
              /\ th' = [th EXCEPT ![p][t] =
                           Returned(th[p][t], NoErr, d.nLoad)]
         ELSE FailUnder(p, t, <<"ModuleLoadFailed", th[p][t].own>>, d)
    /\ UNCHANGED <<fs, extWrote, fsFaulty, extActive, swf, lp>>

LoadStep(p, t) ==
    \/ LoadEnter(p, t)
    \/ LoadLock(p, t)
    \/ LoadBuffer(p, t)
    \/ LoadAfterWrite(p, t)
    \/ LoadDLL(p, t)

\* ----------------------------------------------------------------- LazyProc
\* d.NewProc(name): &LazyProc{l: d, Name: name}.  proc = 0 is the nil
\* pointer; mu = 0 is the unlocked mutex, else the thread holding it.
\* nFindProc counts the calls of FindProc made for this LazyProc, nFound
\* those that succeeded.
NewProc == [mu |-> 0, proc |-> 0, nFindProc |-> 0, nFound |-> 0]

\* Find returns e to its caller.  Find() hands the error on; Addr() and
\* Call() are mustFind followed by a use of p.proc: they panic on an error.
FindReturned(c, e, procNow) ==
    [c EXCEPT !.pc = "idle", !.calls = c.calls + 1, !.err = e,
              !.res = IF e = NoErr THEN "ok"
                      ELSE IF c.kind = "Find" THEN "err" ELSE "panic",
              !.addr = IF e = NoErr /\ c.kind # "Find" THEN procNow ELSE 0]

\* A caller enters Find, Addr or Call of the LazyProc of routine r.
\* The unsynchronised check: atomic.LoadPointer(&p.proc) == nil.
FindEnter(p, t) ==
    /\ th[p][t].pc = "idle"
    /\ CallsMade(p, NumThreads) < MaxCalls
    /\ \E r \in Routines, kind \in {"Find", "Addr", "Call"} :
         LET c == [th[p][t] EXCEPT !.kind = kind, !.res = "none",
                                   !.err = NoErr, !.seen = 0, !.own = 0,
                                   !.sawFail = NoErr, !.routine = r,
                                   !.addr = 0] IN
         th' = [th EXCEPT ![p][t] =
                  IF lp[p][r].proc # 0 THEN FindReturned(c, NoErr, lp[p][r].proc)
                  ELSE [c EXCEPT !.pc = "plock"]]
    /\ UNCHANGED <<fs, extWrote, fsFaulty, extActive, swf, lib, lp>>

\* The lock taken with no second check.
ProcIsNilNoRecheck(p, r) == TRUE

\* The second check, p.proc == nil, made under the lock.
ProcIsNil(p, r) == lp[p][r].proc = 0

\* p.mu.Lock() and the second check under the lock.
FindLock(p, t) ==
    /\ th[p][t].pc = "plock"
    /\ LET r == th[p][t].routine IN
       /\ lp[p][r].mu = 0
       /\ IF ~ProcIsNil(p, r)
          THEN /\ th' = [th EXCEPT ![p][t] =
                           FindReturned(th[p][t], NoErr, lp[p][r].proc)]
               /\ lp' = lp
          ELSE /\ th' = [th EXCEPT ![p][t].pc = "pload"]
               /\ lp' = [lp EXCEPT ![p][r].mu = t]
    /\ UNCHANGED <<fs, extWrote, fsFaulty, extActive, swf, lib>>

\* e := p.l.Load(): the entry of Load with its unsynchronised check.
FindCallLoad(p, t) ==
    /\ th[p][t].pc = "pload"
    /\ th' = [th EXCEPT ![p][t].pc =
                 IF lib[p].dll # 0 THEN "loadret" ELSE "lock"]
    /\ UNCHANGED <<fs, extWrote, fsFaulty, extActive, swf, lib, lp>>

\* The error of Load dropped.
LoadFailedIgnored(e) == FALSE

\* if e != nil after p.l.Load()
LoadFailed(e) == e # NoErr

\* The deferred unlock left out.
ProcUnlockForgotten(l) == l

\* defer p.mu.Unlock()
ProcUnlock(l) == [l EXCEPT !.mu = 0]

\* Load has returned into Find: on an error Find returns it.
FindAfterLoad(p, t) ==
    /\ th[p][t].pc = "loadret"
    /\ LET r == th[p][t].routine IN
       IF LoadFailed(th[p][t].err)
       THEN /\ th' = [th EXCEPT ![p][t] =
                        FindReturned(th[p][t], th[p][t].err, 0)]
            /\ lp' = [lp EXCEPT ![p][r] = ProcUnlock(lp[p][r])]
       ELSE /\ th' = [th EXCEPT ![p][t].pc = "findproc"]
            /\ lp' = lp
    /\ UNCHANGED <<fs, extWrote, fsFaulty, extActive, swf, lib>>

\* p.l.dll.FindProc(p.Name) and atomic.StorePointer(&p.proc, proc).  On a
\* nil p.l.dll the call dereferences nil and panics.  The search can fail
\* (the DLL may not export the name); each successful call yields a new
\* *syscall.Proc.
FindProc(p, t) ==
    /\ th[p][t].pc = "findproc"
    /\ \E ok \in BOOLEAN :
         LET r == th[p][t].routine
             l == [lp[p][r] EXCEPT !.nFindProc = lp[p][r].nFindProc + 1] IN
         IF lib[p].dll = 0
         THEN /\ ~ok
              /\ lp' = [lp EXCEPT ![p][r] = ProcUnlock(l)]
              /\ th' = [th EXCEPT ![p][t] =
                          [FindReturned(th[p][t], <<"NilDereference", 0>>, 0)
                              EXCEPT !.res = "panic"]]
         ELSE IF ok
         THEN /\ lp' = [lp EXCEPT ![p][r] =
                          ProcUnlock([l EXCEPT !.proc = l.nFindProc,
                                               !.nFound = l.nFound + 1])]
              /\ th' = [th EXCEPT ![p][t] =
                          FindReturned(th[p][t], NoErr, l.nFindProc)]
         ELSE /\ lp' = [lp EXCEPT ![p][r] = ProcUnlock(l)]
              /\ th' = [th EXCEPT ![p][t] =
                          FindReturned(th[p][t], <<"ProcNotFound", 0>>, 0)]
    /\ UNCHANGED <<fs, extWrote, fsFaulty, extActive, swf, lib>>

FindStep(p, t) ==
    \/ FindEnter(p, t)
    \/ FindLock(p, t)
    \/ FindCallLoad(p, t)
    \/ FindAfterLoad(p, t)
    \/ FindProc(p, t)

\* -------------------------------------------------------------- the system
\* The temp directory before any process starts: the target file is absent
\* or was left by an earlier run (whole, or cut short).
Init ==
    /\ fs \in [Paths -> {Absent} \cup [exists : {TRUE}, data : Contents]]
    /\ \A path \in Paths \ {TargetPath} : fs[path] = Absent
    /\ fs[TargetPath].exists =>
           \E k \in 0..Len(Image) : fs[TargetPath].data = SubSeq(Image, 1, k)
    /\ extWrote = FALSE
    /\ fsFaulty = FALSE
    /\ extActive = FALSE
    /\ swf = [p \in Procs |-> SwfIdle]
    /\ lib = [p \in Procs |-> NewLazyDLL]
    /\ th = [p \in Procs |-> [t \in Threads |-> ThreadIdle]]
    /\ lp = [p \in Procs |-> [r \in Routines |-> NewProc]]

Next ==
    \/ \E t \in Threads : LoadStep(1, t)
    \/ SwfStep(1)

Spec == Init /\ [][Next]_vars

ProcInit == Init

ProcNext ==
    \/ \E p \in Procs : LoadStep(p, 1)
    \/ \E p \in Procs : SwfStep(p)

ProcSpec == ProcInit /\ [][ProcNext]_vars

\* One process whose threads call Find/Addr/Call on the LazyProcs of one
\* LazyDLL and Load/Handle on the LazyDLL itself, on a working file system.
FindInit == Init

FindNext ==
    \/ \E t \in Threads : LoadStep(1, t)
    \/ \E t \in Threads : FindStep(1, t)
    \/ SwfStep(1)

FindSpec == FindInit /\ [][FindNext]_vars

\* The scheduler runs every thread that can take a step, and a started
\* safeWriteFile, LoadDLL or FindProc returns.
FairFindSpec ==
    /\ FindSpec
    /\ \A t \in Threads : WF_vars(LoadStep(1, t) \/ FindStep(1, t))
    /\ WF_vars(SwfStep(1))

\* One thread that calls Load/Handle/Find/Addr/Call one after the other
\* while the opens of the file may fail for any reason.
FaultInit ==
    /\ fs \in [Paths -> {Absent} \cup [exists : {TRUE}, data : Contents]]
    /\ \A path \in Paths \ {TargetPath} : fs[path] = Absent
    /\ fs[TargetPath].exists =>
           \E k \in 0..Len(Image) : fs[TargetPath].data = SubSeq(Image, 1, k)
    /\ extWrote = FALSE
    /\ fsFaulty = TRUE
    /\ extActive = FALSE
    /\ swf = [p \in Procs |-> SwfIdle]
    /\ lib = [p \in Procs |-> NewLazyDLL]
    /\ th = [p \in Procs |-> [t \in Threads |-> ThreadIdle]]
    /\ lp = [p \in Procs |-> [r \in Routines |-> NewProc]]

FaultNext ==
    \/ LoadStep(1, 1)
    \/ FindStep(1, 1)
    \/ SwfStep(1)

FaultSpec == FaultInit /\ [][FaultNext]_vars

\* ------------------------------------------------- main.go, the uuid naming
\* main.go, NewLazyDLL(dll, name): the file name is fixed at construction
\* from a fresh uuid.
NewLazyDLLUuid(prefix) ==
    [NewLazyDLL EXCEPT !.fileName = TempFileName(prefix, DllName)]

\* main.go, Load: copyFile(d.fileName, d.dllData), that is os.Create and
\* io.Copy of the image reader into the file.
LoadCopyFile(p, t) ==
    /\ th[p][t].pc = "buffer"
    /\ \E ok \in BOOLEAN :
         LET d == [lib[p] EXCEPT !.nRead = lib[p].nRead + 1] IN
         IF ok
         THEN /\ fs' = [fs EXCEPT ![d.fileName] =
                          [exists |-> TRUE, data |-> d.dllData]]
              /\ lib' = [lib EXCEPT ![p] = [d EXCEPT !.dllData = <<>>]]
              /\ th' = [th EXCEPT ![p][t].pc = "opendel"]
         ELSE /\ fs' = fs
              /\ FailUnder(p, t, <<"CopyFileFailed", th[p][t].own>>, d)
    /\ UNCHANGED <<extWrote, fsFaulty, extActive, swf, lp>>

\* main.go, Load: d.dllHandle, e = openWithDelete(d.fileName), then
\* d.wroteDll = true.
LoadOpenWithDelete(p, t) ==
    /\ th[p][t].pc = "opendel"
    /\ \E ok \in BOOLEAN :
         IF ok
         THEN /\ lib' = [lib EXCEPT ![p] = KeepWritten(lib[p])]
              /\ th' = [th EXCEPT ![p][t].pc = "load"]
         ELSE FailUnder(p, t, <<"OpenWithDeleteFailed", th[p][t].own>>, lib[p])
    /\ UNCHANGED <<fs, extWrote, fsFaulty, extActive, swf, lp>>

UuidLoadStep(p, t) ==
    \/ LoadEnter(p, t)
    \/ LoadLock(p, t)
    \/ LoadCopyFile(p, t)
    \/ LoadOpenWithDelete(p, t)
    \/ LoadDLL(p, t)

\* Every process has constructed its LazyDLL with main.go's NewLazyDLL, for
\* the same image and name.
UuidInit ==
    /\ fs = [path \in Paths |-> Absent]
    /\ extWrote = FALSE
    /\ fsFaulty = FALSE
    /\ extActive = FALSE
    /\ swf = [p \in Procs |-> SwfIdle]
    /\ lib \in {[p \in Procs |-> NewLazyDLLUuid(u[p])] : u \in [Procs -> Uuids]}
    /\ th = [p \in Procs |-> [t \in Threads |-> ThreadIdle]]
    /\ lp = [p \in Procs |-> [r \in Routines |-> NewProc]]

UuidNext == \E p \in Procs : UuidLoadStep(p, 1)

UuidSpec == UuidInit /\ [][UuidNext]_vars

\* ----------------------------------------------- the materializer on its own
\* A process calls safeWriteFile(TargetPath, Image, n, delay) directly.
CallSafeWriteFile(p) ==
    /\ swf[p].pc = "idle"
    /\ \E n \in 0..MaxRetry :
         swf' = [swf EXCEPT ![p] = SwfEntry(TargetPath, Image, n)]
    /\ UNCHANGED <<fs, extWrote, fsFaulty, extActive, lib, th, lp>>

\* An actor outside the protocol replaces the file's content.
ExternalRewrite ==
    /\ extActive
    /\ \E c \in Contents \ {Image} :
         /\ fs[TargetPath] # [exists |-> TRUE, data |-> c]
         /\ fs' = [fs EXCEPT ![TargetPath] = [exists |-> TRUE, data |-> c]]
    /\ extWrote' = TRUE
    /\ UNCHANGED <<fsFaulty, extActive, swf, lib, th, lp>>

\* One activation in an arbitrary environment: any file to start with, opens
\* that may fail, an outside actor that may rewrite the file at any time.
SwfInit ==
    /\ fs \in [Paths -> {Absent} \cup [exists : {TRUE}, data : Contents]]
    /\ \A path \in Paths \ {TargetPath} : fs[path] = Absent
    /\ extWrote = FALSE
    /\ fsFaulty \in BOOLEAN
    /\ extActive \in BOOLEAN
    /\ swf = [p \in Procs |-> SwfIdle]
    /\ lib = [p \in Procs |-> NewLazyDLL]
    /\ th = [p \in Procs |-> [t \in Threads |-> ThreadIdle]]
    /\ lp = [p \in Procs |-> [r \in Routines |-> NewProc]]

SwfNext ==
    \/ CallSafeWriteFile(1)
    \/ SwfStep(1)
    \/ ExternalRewrite

SwfSpec == SwfInit /\ [][SwfNext]_vars

\* Two concurrent activations for the same path and image, in two processes,
\* on a working file system that nobody else touches.
Racers == {1, 2}

RaceInit ==
    /\ SwfInit
    /\ ~fsFaulty
    /\ ~extActive

RaceNext ==
    \/ \E p \in Racers : CallSafeWriteFile(p)
    \/ \E p \in Racers : SwfStep(p)

RaceSpec == RaceInit /\ [][RaceNext]_vars

\* The scheduler runs every thread that can take a step: each started
\* safeWriteFile activation keeps executing, its sleeps are finite.
FairSwfSpec == SwfSpec /\ WF_vars(SwfStep(1))

FairRaceSpec ==
    RaceSpec /\ \A p \in Racers : WF_vars(CallSafeWriteFile(p) \/ SwfStep(p))

\* ------------------------------------------------------------------ claims
AllReturned == \A p \in Racers : swf[p].pc = "done"

\* C1: while no Load of a LazyDLL has failed, its Load()/Handle() calls, from
\* any threads, make at most one safeWriteFile call and one LoadDLL call in
\* all (exactly one of each once the handle is set), every call that has
\* returned found the handle set, and every Handle() returned that handle.
C1_OneMaterializeOneLoad ==
    \A p \in Procs : ~lib[p].failed =>
        /\ lib[p].nSwf <= 1
        /\ lib[p].nLoad <= 1
        /\ lib[p].dll # 0 => lib[p].nSwf = 1 /\ lib[p].nLoad = 1
        /\ \A t \in Threads : th[p][t].res = "ok" =>
              /\ lib[p].dll # 0
              /\ th[p][t].kind = "Handle" => th[p][t].seen = lib[p].dll

\* C1 witness: MaxCalls calls were made and have returned, Load and Handle
\* among them, a thread that waited for the lock and a later caller that
\* never took it among them, and one materialize and one load served them
\* all.
C1_Witness ==
    /\ ~lib[1].failed
    /\ lib[1].nSwf = 1 /\ lib[1].nLoad = 1
    /\ CallsMade(1, NumThreads) = MaxCalls
    /\ \A t \in Threads : th[1][t].pc = "idle"
    /\ \E t \in Threads : th[1][t].calls >= 1 /\ th[1][t].res = "ok" /\ th[1][t].own = 0
    /\ \E t \in Threads : th[1][t].kind = "Handle" /\ th[1][t].seen = lib[1].dll
    /\ \E t \in Threads : th[1][t].kind = "Load" /\ th[1][t].res = "ok"

\* C2 (as claimed): a thread that waited for the lock while the attempt of
\* the lock's holder failed makes no attempt of its own and returns that
\* same error.
C2_BlockedCallersShareFailure ==
    \A p \in Procs, t \in Threads : th[p][t].sawFail # NoErr =>
        /\ th[p][t].own = 0
        /\ th[p][t].pc = "idle" => th[p][t].err = th[p][t].sawFail

\* C2 (amended): the cold path runs under the lock, one thread at a time; a
\* call returns an error only from the attempt it made itself, so a thread
\* that waited while another's attempt failed does not return that error,
\* and a call that made no attempt returned because the handle was set.
C2_EachCallerMakesItsOwnAttempt ==
    \A p \in Procs, t \in Threads :
        /\ th[p][t].pc \in {"buffer", "write", "load"} => lib[p].mu = t
        /\ th[p][t].err # NoErr =>
              /\ th[p][t].own # 0
              /\ th[p][t].err[2] = th[p][t].own
              /\ th[p][t].err # th[p][t].sawFail
        /\ (th[p][t].res = "ok" /\ th[p][t].own = 0) => lib[p].dll # 0

\* C2 witness: a thread waited while an attempt failed, then made its own
\* attempt, which failed too.
C2_Witness ==
    \E t \in Threads :
        /\ th[1][t].sawFail # NoErr
        /\ th[1][t].pc = "idle"
        /\ th[1][t].err # NoErr
        /\ th[1][t].own # 0

\* C3 (as claimed): whenever safeWriteFile has returned success, with only
\* other activations for the same path and image running, the file exists
\* and holds the image.
C3_ReturnedFileHoldsImage ==
    \A p \in Procs : swf[p].result = "ok" =>
        fs[TargetPath].exists /\ fs[TargetPath].data = Image

\* C4 (as claimed): no process calls LoadDLL on TargetPath while the file
\* there holds anything but the image.
C4_NeverLoadsOtherContent ==
    \A p \in Procs : ~lib[p].badLoad

\* C5 (as claimed): two concurrent activations for the same path and image,
\* on a working file system nobody else touches, both return success.
C5_BothSucceed ==
    \A p \in Racers : swf[p].pc = "done" => swf[p].result = "ok"

\* C5 (amended): both activations return in the end, each with success or
\* with the content-mismatch error, at least one of them with success and a
\* descriptor, and the file then holds the image.
C5_AllReturnOneSucceeds ==
    <>[](/\ AllReturned
         /\ \A p \in Racers : swf[p].result \in {"ok", "ContentMismatch"}
         /\ \E p \in Racers : swf[p].result = "ok" /\ swf[p].ret
         /\ fs[TargetPath] = [exists |-> TRUE, data |-> Image])

\* C5 witness: both have returned, one with the content-mismatch error.
C5_Witness ==
    /\ AllReturned
    /\ \E p \in Racers : swf[p].result = "ContentMismatch"
    /\ \E p \in Racers : swf[p].result = "ok"

\* C6: safeWriteFile turns to success only in the step that compares what it
\* read through its open read descriptor, when the file's bytes are the
\* image; the bytes a successful call read are the whole image, never an
\* empty or shorter file, and its descriptor is the one returned.
C6_SuccessOnlyOnVerifiedRead ==
    /\ [](\A p \in Procs : swf[p].result = "ok" =>
             /\ swf[p].retRead = Image
             /\ swf[p].ret
             /\ swf[p].err = "nil")
    /\ [][\A p \in Procs :
            (swf[p].result # "ok" /\ swf'[p].result = "ok") =>
                /\ swf[p].pc = "read"
                /\ swf[p].file
                /\ fs[swf[p].fileName].data = Image]_vars

\* C6 witness: a success after the call's own write, with an outside actor
\* rewriting the file.
C6_Witness ==
    /\ swf[1].result = "ok"
    /\ swf[1].nWriteOpen >= 2
    /\ extActive

\* C7 (as claimed): when every attempt opened the file and found it
\* different, the call fails with the content-mismatch error after exactly
\* N+1 attempts (N = retryCount - 1 is the count the caller passed).
C7_FailsAfterNPlus1 ==
    \A p \in Procs : (swf[p].pc = "done" /\ swf[p].allMismatch) =>
        /\ swf[p].result = "ContentMismatch"
        /\ swf[p].nReadOpen = (swf[p].retryCount - 1) + 1

\* C7 (amended): it fails with the content-mismatch error after exactly N+2
\* attempts.
C7_FailsAfterNPlus2 ==
    \A p \in Procs : (swf[p].pc = "done" /\ swf[p].allMismatch) =>
        /\ swf[p].result = "ContentMismatch"
        /\ swf[p].nReadOpen = (swf[p].retryCount - 1) + 2

\* C7 witness: a call with N = MaxRetry that found a different file at every
\* attempt.
C7_Witness ==
    /\ swf[1].pc = "done"
    /\ swf[1].allMismatch
    /\ swf[1].retryCount = MaxRetry + 1
    /\ swf[1].nReadOpen = MaxRetry + 2

\* C8: a started safeWriteFile returns, whatever the opens and the outside
\* actor do, and it never starts more than N+2 iterations.
C8_Terminates ==
    /\ [](\A p \in Procs : swf[p].nReadOpen <= swf[p].retryCount + 1)
    /\ ((swf[1].pc # "idle") ~> (swf[1].pc = "done"))

\* C8 witness: a call returned after every open of every iteration failed.
C8_Witness ==
    /\ swf[1].pc = "done"
    /\ swf[1].result = "WriteError"
    /\ swf[1].nReadOpen = MaxRetry + 2
    /\ swf[1].nOpen = 0
    /\ extActive

\* C9: when the file holds the image as safeWriteFile starts, nobody modifies
\* it and the open of the existing file works, the call returns success from
\* its first iteration after one read-open, no write-open and no sleep, and
\* the file still holds the image.
C9_NoWriteWhenAlreadyRight ==
    \A p \in Procs :
        (swf[p].pc = "done" /\ swf[p].startOK /\ ~extWrote /\ ~fsFaulty) =>
            /\ swf[p].result = "ok"
            /\ swf[p].i = 0
            /\ swf[p].nReadOpen = 1
            /\ swf[p].nWriteOpen = 0
            /\ swf[p].nSleep = 0
            /\ fs[swf[p].fileName] = [exists |-> TRUE, data |-> Image]

\* C9 witness: such a call, with the largest retry count, has returned while
\* an outside actor could have rewritten the file and did not.
C9_Witness ==
    /\ swf[1].pc = "done"
    /\ swf[1].startOK
    /\ ~extWrote
    /\ extActive
    /\ ~fsFaulty
    /\ swf[1].retryCount = MaxRetry + 1

\* C10: a failing LoadDLL leaves the handle unset, the wrote-file flag set
\* and the lock free; once the flag is set it stays set, the image source is
\* not read again, safeWriteFile is not called again, the path does not
\* change, and a thread that takes the lock goes straight to LoadDLL.
C10_RetrySkipsWrite ==
    [][\A p \in Procs :
        /\ (lib'[p].nLoad # lib[p].nLoad /\ lib'[p].dll = 0) =>
              lib'[p].wroteDll /\ lib'[p].mu = 0
        /\ lib[p].wroteDll =>
              /\ lib'[p].wroteDll
              /\ lib'[p].nRead = lib[p].nRead
              /\ lib'[p].nSwf = lib[p].nSwf
              /\ lib'[p].fileName = lib[p].fileName
              /\ \A t \in Threads :
                    (th[p][t].pc = "lock" /\ th'[p][t].pc \notin {"lock", "idle"})
                        => th'[p][t].pc = "load"]_vars

\* C10 witness: LoadDLL failed, a later Load succeeded, and the image was
\* read and written once.
C10_Witness ==
    /\ lib[1].failed
    /\ lib[1].nLoad >= 2
    /\ lib[1].dll # 0
    /\ lib[1].nRead = 1
    /\ lib[1].nSwf = 1

\* C16: a safeWriteFile call holds at most its read and its write descriptor;
\* an iteration's read-open finds every descriptor of the iteration before
\* closed; after a return the call holds no descriptor but the one it
\* returned, which it returns exactly on success.
C16_HandlesClosed ==
    /\ [](\A p \in Procs :
            /\ swf[p].nOpen = (IF swf[p].file THEN 1 ELSE 0)
                               + (IF swf[p].wFile THEN 1 ELSE 0)
                               + (IF swf[p].ret THEN 1 ELSE 0)
            /\ swf[p].pc = "read" => swf[p].file /\ swf[p].nOpen = 1
            /\ swf[p].pc = "done" =>
                  /\ ~swf[p].file /\ ~swf[p].wFile
                  /\ swf[p].ret <=> swf[p].result = "ok"
                  /\ swf[p].nOpen = (IF swf[p].result = "ok" THEN 1 ELSE 0))
    /\ [][\A p \in Procs :
            (swf[p].pc = "top" /\ swf'[p].pc # "top") =>
                swf'[p].nOpen = (IF swf'[p].file THEN 1 ELSE 0)]_vars

\* C16 witness: a call that opened the file for writing more than once and
\* for reading at every iteration has returned the mismatch error.
C16_Witness ==
    /\ swf[1].pc = "done"
    /\ swf[1].result = "ContentMismatch"
    /\ swf[1].nWriteOpen >= 2
    /\ swf[1].allMismatch
    /\ swf[1].nOpen = 0

\* C17 (as claimed): every iteration that was not the last and did not
\* return was followed by a sleep, so a call in its iteration i has slept
\* i times.
C17_SleepBetweenAttempts ==
    \A p \in Procs :
        swf[p].pc \in {"top", "read", "wopen", "write"} =>
            swf[p].nSleep = swf[p].i

\* C19: when the file is absent as safeWriteFile starts, the opens work and
\* nobody else touches the file, the call returns success from its second
\* iteration after two read-opens and one write-open, for every retry count,
\* and the file holds the image, which is what the call read back.
C19_AbsentFileTwoIterations ==
    \A p \in Procs :
        (swf[p].pc = "done" /\ swf[p].startAbsent /\ ~extWrote /\ ~fsFaulty) =>
            /\ swf[p].result = "ok"
            /\ swf[p].i = 1
            /\ swf[p].nReadOpen = 2
            /\ swf[p].nWriteOpen = 1
            /\ swf[p].retRead = Image
            /\ fs[swf[p].fileName] = [exists |-> TRUE, data |-> Image]

\* C19 witness: such a call with retry count 0 has returned.
C19_Witness ==
    /\ swf[1].pc = "done"
    /\ swf[1].startAbsent
    /\ swf[1].retryCount = 1
    /\ ~extWrote
    /\ ~fsFaulty
    /\ swf[1].nWriteOpen = 1

\* The calls of thread t of process p return in this step.
Returns(p, t) == th[p][t].pc # "idle" /\ th'[p][t].pc = "idle"

\* C11: FindProc is called for a LazyProc only after the library was
\* materialized and loaded; it succeeds at most once per LazyProc, exactly
\* once when the address is set; once the library is loaded neither
\* safeWriteFile nor LoadDLL is called again; every Find() that returned nil
\* found the address set and every Addr()/Call() used that address.
C11_FindLoadsThenResolvesOnce ==
    /\ [](\A p \in Procs :
            /\ \A r \in Routines :
                  /\ lp[p][r].nFound <= 1
                  /\ lp[p][r].proc # 0 =>
                        lp[p][r].nFound = 1 /\ lib[p].dll # 0
            /\ \A t \in Threads :
                  (th[p][t].res = "ok" /\ th[p][t].routine # 0) =>
                      /\ lp[p][th[p][t].routine].proc # 0
                      /\ th[p][t].kind # "Find" =>
                            th[p][t].addr = lp[p][th[p][t].routine].proc)
    /\ [][\A p \in Procs :
            /\ lib[p].dll # 0 =>
                  lib'[p].nLoad = lib[p].nLoad /\ lib'[p].nSwf = lib[p].nSwf
            /\ \A r \in Routines :
                  lp'[p][r].nFindProc # lp[p][r].nFindProc =>
                      /\ lib[p].nSwf >= 1 /\ lib[p].nLoad >= 1
                      /\ lib[p].dll # 0]_vars

\* C11 witness: the library was never called directly; an Addr() ran the
\* library's cold path and FindProc, another call on the same LazyProc
\* found the address set; one safeWriteFile, one LoadDLL, one FindProc.
C11_Witness ==
    /\ CallsMade(1, NumThreads) = MaxCalls
    /\ ~lib[1].failed
    /\ lib[1].nSwf = 1 /\ lib[1].nLoad = 1
    /\ \A t \in Threads : th[1][t].pc = "idle" /\ th[1][t].routine # 0
    /\ \E t, u \in Threads :
          /\ t # u
          /\ th[1][t].routine = th[1][u].routine
          /\ th[1][t].kind = "Addr" /\ th[1][t].res = "ok" /\ th[1][t].own # 0
          /\ th[1][u].kind = "Call" /\ th[1][u].res = "ok" /\ th[1][u].own = 0
          /\ lp[1][th[1][t].routine].nFindProc = 1

\* C12 (as claimed): the LazyDLLs of all processes, built from the same
\* image and name, use one and the same path for their file.
C12_PathIsFunctionOfImageAndName ==
    \A p, q \in Procs :
        (lib[p].fileName # <<>> /\ lib[q].fileName # <<>>
            /\ lib[p].Name = lib[q].Name) =>
                lib[p].fileName = lib[q].fileName

\* C13: a call that returns an error returns it as a value from Load() and
\* Find() and as a panic from Handle(), Addr() and Call(), with no handle or
\* address handed out, its locks released and the cache it was to fill
\* still unset; a call that returns without an error hands out the set
\* handle or address; every failed image read, safeWriteFile, LoadDLL and
\* FindProc is the error its caller gets, and a Load that failed inside
\* Find is the error of that Find.
C13_FailuresAreReturned ==
    [][\A p \in Procs, t \in Threads :
        LET c == th[p][t]
            d == th'[p][t]
            left == d.pc \in {"idle", "loadret"}
        IN
        /\ Returns(p, t) =>
              /\ lib'[p].mu # t
              /\ \A r \in Routines : lp'[p][r].mu # t
              /\ d.err # NoErr =>
                    /\ d.res = IF d.kind \in {"Load", "Find"} THEN "err"
                                ELSE "panic"
                    /\ d.seen = 0 /\ d.addr = 0
                    /\ d.routine = 0 => lib'[p].dll = 0
                    /\ d.routine # 0 => lp'[p][d.routine].proc = 0
              /\ d.err = NoErr =>
                    /\ d.res = "ok"
                    /\ d.kind = "Handle" => d.seen # 0 /\ d.seen = lib'[p].dll
                    /\ d.kind \in {"Addr", "Call"} =>
                          d.addr # 0 /\ d.addr = lp'[p][d.routine].proc
        /\ (c.pc = "buffer" /\ d.pc # "buffer" /\ d.pc # "write") =>
              left /\ d.err[1] = "ImageReadFailed"
        /\ (c.pc = "write" /\ d.pc # "write" /\ swf[p].result # "ok") =>
              left /\ d.err[1] = swf[p].result
        /\ (c.pc = "load" /\ d.pc # "load" /\ lib'[p].dll = 0) =>
              left /\ d.err[1] = "ModuleLoadFailed"
        /\ (c.pc = "findproc" /\ d.pc # "findproc"
                 /\ lp'[p][c.routine].proc = 0) =>
              d.pc = "idle" /\ d.err[1] = "ProcNotFound"
        /\ (c.pc = "loadret" /\ c.err # NoErr /\ d # c) =>
              d.pc = "idle" /\ d.err = c.err
        /\ (c.pc # "idle" /\ d # c /\ d.err # NoErr) => left]_vars

\* C13 witness: an Addr() has panicked on the write error of the
\* safeWriteFile call that its Find made through Load.
C13_Witness ==
    /\ th[1][1].pc = "idle"
    /\ th[1][1].kind = "Addr"
    /\ th[1][1].res = "panic"
    /\ th[1][1].err[1] = "WriteError"
    /\ swf[1].result = "WriteError"
    /\ lib[1].mu = 0

\* C14: the handle of a LazyDLL and the address of a LazyProc, once set,
\* never change; the handle is set only by the LoadDLL step of a LazyDLL
\* whose file was written and verified, the address only by a FindProc step
\* on a loaded library; a call that returned on the fast path saw them set.
C14_PublishedOnceWhenComplete ==
    /\ [](\A p \in Procs :
            /\ lib[p].dll # 0 =>
                  /\ lib[p].wroteDll /\ lib[p].dllHandle
                  /\ swf[p].result = "ok"
                  /\ lib[p].nLoad >= 1
            /\ \A r \in Routines : lp[p][r].proc # 0 =>
                  lib[p].dll # 0 /\ lp[p][r].nFindProc >= 1
            /\ \A t \in Threads :
                  (th[p][t].res = "ok" /\ th[p][t].kind = "Handle") =>
                      th[p][t].seen = lib[p].dll /\ lib[p].dll # 0)
    /\ [][\A p \in Procs :
            /\ lib[p].dll # 0 => lib'[p].dll = lib[p].dll
            /\ (lib[p].dll = 0 /\ lib'[p].dll # 0) =>
                  /\ lib[p].wroteDll /\ swf[p].result = "ok"
                  /\ lib'[p].nLoad = lib[p].nLoad + 1
                  /\ \E t \in Threads : th[p][t].pc = "load" /\ lib[p].mu = t
            /\ \A r \in Routines :
                  /\ lp[p][r].proc # 0 => lp'[p][r].proc = lp[p][r].proc
                  /\ (lp[p][r].proc = 0 /\ lp'[p][r].proc # 0) =>
                        /\ lib[p].dll # 0
                        /\ lp'[p][r].nFindProc = lp[p][r].nFindProc + 1
                        /\ \E t \in Threads :
                              th[p][t].pc = "findproc" /\ lp[p][r].mu = t]_vars

\* C14 witness: after a failed attempt the handle and an address are set,
\* and an Addr() has returned the address.
C14_Witness ==
    /\ lib[1].failed
    /\ lib[1].dll # 0
    /\ \E t \in Threads :
          /\ th[1][t].kind = "Addr" /\ th[1][t].res = "ok"
          /\ th[1][t].addr # 0
          /\ th[1][t].addr = lp[1][th[1][t].routine].proc

\* C18: FindProc is called only while the library's handle is set, never on
\* a nil library; a Find whose Load failed returns that error with no call
\* of FindProc and the address unset; a set address implies a set handle.
C18_ResolveOnlyOnLoadedLibrary ==
    /\ [](\A p \in Procs :
            /\ \A r \in Routines : lp[p][r].proc # 0 => lib[p].dll # 0
            /\ \A t \in Threads :
                  /\ th[p][t].err[1] # "NilDereference"
                  /\ th[p][t].pc = "findproc" => lib[p].dll # 0)
    /\ [][\A p \in Procs, t \in Threads :
            LET r == th[p][t].routine IN
            /\ (th[p][t].pc = "findproc" /\ th'[p][t].pc # "findproc") =>
                  lib[p].dll # 0
            /\ (th[p][t].pc = "loadret" /\ th[p][t].err # NoErr
                    /\ th'[p][t] # th[p][t]) =>
                  /\ th'[p][t].pc = "idle"
                  /\ th'[p][t].err = th[p][t].err
                  /\ lp'[p][r].nFindProc = lp[p][r].nFindProc
                  /\ lp'[p][r].proc = 0
                  /\ lp'[p][r].mu = 0]_vars

\* C18 witness: a Find() returned the error of a failed LoadDLL; FindProc
\* was never called for its LazyProc.
C18_Witness ==
    \E t \in Threads :
        /\ th[1][t].pc = "idle"
        /\ th[1][t].kind = "Find"
        /\ th[1][t].res = "err"
        /\ th[1][t].err[1] = "ModuleLoadFailed"
        /\ lp[1][th[1][t].routine].nFindProc = 0
        /\ lp[1][th[1][t].routine].proc = 0
        /\ lib[1].dll = 0

\* The locks thread t of process p holds.
HoldsLib(p, t) == lib[p].mu = t
HoldsProc(p, t, r) == lp[p][r].mu = t

\* C20: a thread waits for a routine lock holding no lock, and for the
\* library lock holding at most the lock of the routine it resolves; a
\* thread between calls holds no lock; every started call returns.
C20_NoDeadlock ==
    /\ [](\A p \in Procs, t \in Threads :
            /\ th[p][t].pc \in {"idle", "plock"} =>
                  /\ ~HoldsLib(p, t)
                  /\ \A r \in Routines : ~HoldsProc(p, t, r)
            /\ th[p][t].pc \in {"lock", "pload", "loadret", "findproc"} =>
                  ~HoldsLib(p, t)
            /\ \A r \in Routines : HoldsProc(p, t, r) =>
                  /\ th[p][t].routine = r
                  /\ th[p][t].pc \in {"pload", "lock", "buffer", "write",
                                       "load", "loadret", "findproc"}
            /\ HoldsLib(p, t) => th[p][t].pc \in {"buffer", "write", "load"})
    /\ \A t \in Threads : (th[1][t].pc # "idle") ~> (th[1][t].pc = "idle")

\* C20 witness: a thread resolving a routine waited for the library lock
\* while the attempt of a thread that called the library directly failed,
\* then loaded the library itself and resolved the routine.
C20_Witness ==
    \E t, u \in Threads :
        /\ t # u
        /\ th[1][t].pc = "idle" /\ th[1][u].pc = "idle"
        /\ th[1][t].routine # 0 /\ th[1][t].sawFail # NoErr
        /\ th[1][t].res = "ok" /\ th[1][t].own # 0
        /\ th[1][u].routine = 0 /\ th[1][u].res \in {"err", "panic"}
        /\ lib[1].mu = 0
        /\ \A r \in Routines : lp[1][r].mu = 0

\* C15 (as claimed): while no read of the image source has returned an
\* error (every read was followed by a safeWriteFile call), the image source
\* of a LazyDLL is read at most once, every safeWriteFile call it makes is
\* passed the whole image and the path derived from it, and the wrote-file
\* flag is set only for that path.
C15_ImageReadOnceAndWhole ==
    \A p \in Procs : lib[p].nRead = lib[p].nSwf =>
        /\ lib[p].nRead <= 1
        /\ swf[p].pc # "idle" =>
              swf[p].contents = Image /\ swf[p].fileName = TargetPath
        /\ lib[p].wroteDll => lib[p].fileName = TargetPath

====
